---------------------------- MODULE Spec2Model ----------------------------
(***************************************************************************)
(* Bridges (Hashiwokakero) generator, candidate deriver, constraint model  *)
(* and verifier of is-a-clam/bridges_solver, as state machines.            *)
(*                                                                         *)
(* Positions are pairs <<x, y>>.  A cell (grid.Node) is a record           *)
(* [type, degree]; an Island is [x, y, degree]; a Bridge is                *)
(* [node1, node2, single].  Python's random draws are nondeterministic     *)
(* choices over every value the draw can produce.                          *)
(***************************************************************************)
EXTENDS Integers, Sequences, FiniteSets, TLC

VARIABLES
    pc,                \* control point of the function being run
    width,             \* generate's width argument / the Puzzle's width
    height,            \* generate's height argument / the Puzzle's height
    difficulty,        \* generate's difficulty argument
    decays,            \* number of executions of `min_island_density += decay`
    grid,              \* generate_candidate's Grid (grid.grid[x][y])
    island_count,      \* generate_candidate's island_count
    solution,          \* generate_candidate's solution list
    to_expand,         \* generate_candidate's frontier list (positions)
    cycle,             \* iterations of `for _ in range(max_cycles)` consumed
    puzzle,            \* the Puzzle returned by generate, or the Puzzle given
                       \* to check_solution, __str__, the derivers and solve
    possible_bridges,  \* the list returned by get_possible_bridges
    crossing_bridges,  \* the list returned by get_crossing_bridges
    ret                \* what check_solution, __str__ or solve returned

vars == <<pc, width, height, difficulty, decays, grid, island_count,
          solution, to_expand, cycle, puzzle, possible_bridges,
          crossing_bridges, ret>>

\* what the generator leaves alone
derive_vars == <<possible_bridges, crossing_bridges, ret>>

\* what the verifier, the derivers and solve leave alone
gen_vars == <<difficulty, decays, grid, island_count, solution, to_expand, cycle>>

(***************************************************************************)
(* Bounds of the model                                                     *)
(***************************************************************************)
\* the calls generate(width, height, difficulty) followed from their start.
\* On a 4 x 4 board "easy" and "medium" behave as "hard" does: the three
\* share min_island_count = 4 and shorter_bridges = False, and no island
\* reaches a degree of 5.
GenerateCalls == {<<4, 4, "hard">>, <<5, 4, "easy">>}

\* the call followed from a later iteration of generate's `while True`
LoosenedCalls == {<<4, 4, "extreme">>}

\* attempts are followed while at most this many density decays have been
\* made since the first modelled attempt (the code has no cap)
MaxDecay == 0

\* under-count attempts that precede the first modelled attempt of
\* SpecGenLoosened
PriorDecays == 71

\* the board of the puzzles given to check_solution and __str__
CheckWidth == 3

CheckHeight == 3

\* their islands: at most MaxCheckIslands, on pairwise distinct corners of the
\* board, with degrees 0 .. MaxCheckDegree; their solutions: at most
\* MaxCheckBridges bridges, each between two different islands (aligned or not)
MaxCheckIslands == 3

MaxCheckDegree == 3

MaxCheckBridges == 2

\* the board of the puzzles given to the derivers, and the number of their
\* islands (on pairwise distinct cells, in any list order)
DeriveWidth == 3

DeriveHeight == 3

MaxDeriveIslands == 5

\* the board of the puzzles given to solve, the number of their islands (on
\* any cells, listed in the scan order of Grid.to_puzzle as demo.py's are)
\* and their largest degree
SolveWidth == 3

SolveHeight == 3

MaxSolveIslands == 4

MaxSolveDegree == 3

\* a second board given to solve, with six islands of degree
\* 1 .. MaxSolveDegree on CrossIslands: the candidates (0,2)-(3,2) and
\* (2,0)-(2,4) cross, and the other four candidates join all six islands
CrossWidth == 4

CrossHeight == 5

CrossIslands == {<<0, 0>>, <<0, 2>>, <<0, 4>>, <<2, 0>>, <<2, 4>>, <<3, 2>>}

\* Python's None, where a record is held otherwise
None == [kind |-> "None"]

(***************************************************************************)
(* direction.py                                                            *)
(***************************************************************************)
Direction == {"UP", "DOWN", "LEFT", "RIGHT"}

get_vector(d) ==
    CASE d = "UP" -> <<0, -1>>
      [] d = "DOWN" -> <<0, 1>>
      [] d = "LEFT" -> <<-1, 0>>
      [] d = "RIGHT" -> <<1, 0>>

\* Python's min and max of two integers
Min(a, b) == IF a <= b THEN a ELSE b

Max(a, b) == IF a >= b THEN a ELSE b

(***************************************************************************)
(* puzzle.py                                                               *)
(***************************************************************************)
\* Island(x, y, degree)
Island(x, y, degree) == [x |-> x, y |-> y, degree |-> degree]

\* Bridge(node1, node2, single)
Bridge(node1, node2, single) == [node1 |-> node1, node2 |-> node2, single |-> single]

\* Puzzle(width, height, islands, None); has_solution is `solution is not None`
Puzzle(w, h, islands) ==
    [width |-> w, height |-> h, islands |-> islands, solution |-> <<>>,
     has_solution |-> FALSE]

\* Puzzle.with_solution
with_solution(p, sol) == [p EXCEPT !.solution = sol, !.has_solution = TRUE]

\* Puzzle.without_solution
without_solution(p) == [p EXCEPT !.solution = <<>>, !.has_solution = FALSE]

NoPuzzle == Puzzle(0, 0, <<>>)

\* the dict key (island.x, island.y)
pos(island) == <<island.x, island.y>>

\* the keys of {(island.x, island.y): ... for island in self.islands}
island_keys(islands) == {pos(islands[i]) : i \in 1 .. Len(islands)}

\* {(island.x, island.y): island.degree for island in self.islands}: a later
\* island at the same position replaces an earlier one
island_degree_dict(islands) ==
    [p \in island_keys(islands) |->
        LET last == CHOOSE i \in 1 .. Len(islands) :
                        /\ pos(islands[i]) = p
                        /\ \A j \in i + 1 .. Len(islands) : pos(islands[j]) # p
        IN  islands[last].degree]

\* 1 if bridge.single else 2
bridge_weight(bridge) == IF bridge.single THEN 1 ELSE 2

\* the loop of check_solution lines 48-50, from the k-th bridge on
RECURSIVE subtract_bridges(_, _, _)
subtract_bridges(deg, sol, k) ==
    IF k > Len(sol) THEN deg
    ELSE LET w == bridge_weight(sol[k])
             d1 == [deg EXCEPT ![pos(sol[k].node1)] = @ - w]
             d2 == [d1 EXCEPT ![pos(sol[k].node2)] = @ - w]
         IN  subtract_bridges(d2, sol, k + 1)

\* the loop of check_solution lines 56-58, from the k-th bridge on
RECURSIVE build_neighbours(_, _, _)
build_neighbours(nb, sol, k) ==
    IF k > Len(sol) THEN nb
    ELSE LET n1 == [nb EXCEPT ![pos(sol[k].node1)] = Append(@, pos(sol[k].node2))]
             n2 == [n1 EXCEPT ![pos(sol[k].node2)] = Append(@, pos(sol[k].node1))]
         IN  build_neighbours(n2, sol, k + 1)

\* the while loop of check_solution lines 62-68 over the deque to_visit
RECURSIVE bfs_visit(_, _, _)
bfs_visit(to_visit, visited_dict, neighbours) ==
    IF Len(to_visit) = 0 THEN visited_dict
    ELSE LET current == Head(to_visit)
         IN  IF visited_dict[current]
             THEN bfs_visit(Tail(to_visit), visited_dict, neighbours)
             ELSE bfs_visit(Tail(to_visit) \o neighbours[current],
                            [visited_dict EXCEPT ![current] = TRUE], neighbours)

\* a returned (bool, str) pair
Verdict(ok, reason) == [kind |-> "verdict", ok |-> ok, reason |-> reason]

\* an exception leaving the function
Raised(exception) == [kind |-> "raised", exception |-> exception]

\* Puzzle.check_solution
check_solution(p) ==
    IF ~p.has_solution THEN Raised("AssertionError")
    ELSE IF \E k \in 1 .. Len(p.solution) :
                \/ pos(p.solution[k].node1) \notin island_keys(p.islands)
                \/ pos(p.solution[k].node2) \notin island_keys(p.islands)
    THEN Raised("KeyError")
    ELSE LET island_degree == subtract_bridges(island_degree_dict(p.islands), p.solution, 1)
         IN  IF \E q \in DOMAIN island_degree : island_degree[q] # 0
             THEN Verdict(FALSE, "Islands do not match bridges")
             ELSE IF Len(p.islands) = 0 THEN Raised("IndexError")
             ELSE LET neighbours == build_neighbours(
                          [q \in island_keys(p.islands) |-> <<>>], p.solution, 1)
                      visited_dict == bfs_visit(
                          <<pos(p.islands[1])>>,
                          [q \in island_keys(p.islands) |-> FALSE], neighbours)
                  IN  IF \E q \in DOMAIN visited_dict : ~visited_dict[q]
                      THEN Verdict(FALSE, "Islands are not fully connected")
                      ELSE Verdict(TRUE, "Success")

\* symbol_dict[key] = value
dict_set(d, key, value) ==
    [q \in DOMAIN d \cup {key} |-> IF q = key THEN value ELSE d[q]]

\* the inner loops of __str__ lines 88-89 and 93-94: cells lo .. hi - 1 of a
\* column (vertical) or a row
RECURSIVE fill_symbols(_, _, _, _, _, _)
fill_symbols(d, vertical, fixed, lo, hi, symbol) ==
    IF lo >= hi THEN d
    ELSE fill_symbols(dict_set(d, IF vertical THEN <<fixed, lo>> ELSE <<lo, fixed>>, symbol),
                      vertical, fixed, lo + 1, hi, symbol)

\* the loop of __str__ lines 84-96, from the k-th bridge on; a bridge that is
\* neither vertical nor horizontal raises ValueError("Solution is invalid")
RECURSIVE place_bridges(_, _, _)
place_bridges(d, sol, k) ==
    IF k > Len(sol) THEN [kind |-> "str", symbol_dict |-> d]
    ELSE LET n1 == sol[k].node1
             n2 == sol[k].node2
         IN  IF n1.x = n2.x
             THEN place_bridges(
                      fill_symbols(d, TRUE, n1.x, Min(n1.y, n2.y) + 1, Max(n1.y, n2.y),
                                   IF sol[k].single THEN "v1" ELSE "v2"), sol, k + 1)
             ELSE IF n1.y = n2.y
             THEN place_bridges(
                      fill_symbols(d, FALSE, n1.y, Min(n1.x, n2.x) + 1, Max(n1.x, n2.x),
                                   IF sol[k].single THEN "h1" ELSE "h2"), sol, k + 1)
             ELSE Raised("ValueError")

\* Puzzle.__str__ up to line 96: the symbols placed on the board, which the
\* rest of the method only prints
str_symbols(p) ==
    LET islands_dict == [q \in island_keys(p.islands) |->
                            <<"island", island_degree_dict(p.islands)[q]>>]
    IN  IF p.has_solution THEN place_bridges(islands_dict, p.solution, 1)
        ELSE [kind |-> "str", symbol_dict |-> islands_dict]

(***************************************************************************)
(* grid.py                                                                 *)
(***************************************************************************)
\* Node(i, j): type "empty", degree -1
EmptyNode == [type |-> "empty", degree |-> -1]

\* Node.to_island
to_island(degree) == [type |-> "island", degree |-> degree]

\* Node.to_bridge
to_bridge == [type |-> "bridge", degree |-> -1]

\* Grid.__init__
NewGrid(w, h) == [p \in (0 .. w - 1) \X (0 .. h - 1) |-> EmptyNode]

\* Grid.within_bounds
within_bounds(w, h, x, y) == x >= 0 /\ x < w /\ y >= 0 /\ y < h

\* the list available_directions of Grid.get_random_direction, as a set
available_directions(g, w, h, x, y) ==
    {d \in Direction :
        \/ d = "UP" /\ y >= 2
             /\ g[<<x, y - 1>>].type = "empty" /\ g[<<x, y - 2>>].type = "empty"
        \/ d = "DOWN" /\ y < h - 2
             /\ g[<<x, y + 1>>].type = "empty" /\ g[<<x, y + 2>>].type = "empty"
        \/ d = "LEFT" /\ x >= 2
             /\ g[<<x - 1, y>>].type = "empty" /\ g[<<x - 2, y>>].type = "empty"
        \/ d = "RIGHT" /\ x < w - 2
             /\ g[<<x + 1, y>>].type = "empty" /\ g[<<x + 2, y>>].type = "empty"}

\* Grid.get_random_bridge_thickness: the values the draw can return
thickness_choices(g, x, y, max_degree) ==
    IF max_degree - g[<<x, y>>].degree >= 2 THEN {1, 2} ELSE {1}

\* the while loop of Grid.get_random_bridge_length, from check position k steps away
RECURSIVE max_length_from(_, _, _, _, _, _, _, _)
max_length_from(g, w, h, x, y, v, k, len) ==
    LET cx == x + v[1] * k
        cy == y + v[2] * k
    IN  IF ~within_bounds(w, h, cx, cy) THEN len
        ELSE IF g[<<cx, cy>>].type # "empty" THEN len
        ELSE max_length_from(g, w, h, x, y, v, k + 1, len + 1)

\* max_length of Grid.get_random_bridge_length
max_length(g, w, h, x, y, d) == max_length_from(g, w, h, x, y, get_vector(d), 3, 1)

\* Grid.get_random_bridge_length: the values the draw can return
length_choices(g, w, h, x, y, d, shorter_bridges) ==
    LET m == max_length(g, w, h, x, y, d)
    IN  IF shorter_bridges
        THEN {Min(a, b) : a \in 1 .. m, b \in 1 .. m}
        ELSE 1 .. m

\* add_bridge that leaves the cells it passes as they are
add_bridge_unmarked(g, x, y, length, d) == g

\* Grid.add_bridge
add_bridge(g, x, y, length, d) ==
    LET v == get_vector(d)
        cells == {<<x + v[1] * (i + 1), y + v[2] * (i + 1)>> : i \in 0 .. length - 1}
    IN  [p \in DOMAIN g |-> IF p \in cells THEN to_bridge ELSE g[p]]

\* Grid.to_puzzle: islands in the scan order x outer, y inner
RECURSIVE scan_islands(_, _, _, _)
scan_islands(g, w, h, k) ==
    IF k >= w * h THEN <<>>
    ELSE LET x == k \div h
             y == k % h
             rest == scan_islands(g, w, h, k + 1)
         IN  IF g[<<x, y>>].type = "island"
             THEN <<Island(x, y, g[<<x, y>>].degree)>> \o rest
             ELSE rest

to_puzzle(g, w, h) == Puzzle(w, h, scan_islands(g, w, h, 0))

(***************************************************************************)
(* solver.py                                                               *)
(***************************************************************************)
\* Puzzle.to_grid (puzzle.py lines 35-41)
RECURSIVE place_islands(_, _, _)
place_islands(g, islands, k) ==
    IF k > Len(islands) THEN g
    ELSE place_islands([g EXCEPT ![pos(islands[k])] = to_island(islands[k].degree)],
                       islands, k + 1)

to_grid(p) == place_islands(NewGrid(p.width, p.height), p.islands, 1)

\* valid_vertical without the scan of the cells in between
valid_vertical_unscanned(g, x, y1, y2) == TRUE

\* `for y in range(start + 1, end)` finds no island in column x
\* (get_possible_bridges lines 37-43)
valid_vertical(g, x, y1, y2) ==
    \A y \in Min(y1, y2) + 1 .. Max(y1, y2) - 1 : g[<<x, y>>].type # "island"

\* `for x in range(start + 1, end)` finds no island in row y (lines 50-56)
valid_horizontal(g, y, x1, x2) ==
    \A x \in Min(x1, x2) + 1 .. Max(x1, x2) - 1 : g[<<x, y>>].type # "island"

\* the body of the double loop of get_possible_bridges for the index pair
\* (i, j), 0-based: whether (i, j) is appended
is_possible_bridge(p, g, i, j) ==
    LET island_i == p.islands[i + 1]
        island_j == p.islands[j + 1]
    IN  IF i >= j THEN FALSE
        ELSE IF island_i.x = island_j.x
        THEN valid_vertical(g, island_i.x, island_i.y, island_j.y)
        ELSE IF island_i.y = island_j.y
        THEN valid_horizontal(g, island_i.y, island_i.x, island_j.x)
        ELSE FALSE

\* the double loop of get_possible_bridges from its k-th iteration on
\* (i = k div n outer, j = k mod n inner)
RECURSIVE possible_from(_, _, _)
possible_from(p, g, k) ==
    LET n == Len(p.islands)
    IN  IF k >= n * n THEN <<>>
        ELSE IF is_possible_bridge(p, g, k \div n, k % n)
        THEN <<<<k \div n, k % n>>>> \o possible_from(p, g, k + 1)
        ELSE possible_from(p, g, k + 1)

\* get_possible_bridges
get_possible_bridges(p, g) == possible_from(p, g, 0)

\* is_crossing with `<=` where the code has `<`: segments that only touch
\* at an end count as crossing
is_crossing_inclusive(p, c1, c2) ==
    LET i1_island == p.islands[c1[1] + 1]
        j1_island == p.islands[c1[2] + 1]
        i2_island == p.islands[c2[1] + 1]
        j2_island == p.islands[c2[2] + 1]
        is_1_horizontal == i1_island.y = j1_island.y
        is_2_horizontal == i2_island.y = j2_island.y
        horizontal == IF is_1_horizontal THEN <<i1_island, j1_island>>
                      ELSE <<i2_island, j2_island>>
        vertical == IF is_1_horizontal THEN <<i2_island, j2_island>>
                    ELSE <<i1_island, j1_island>>
    IN  IF is_1_horizontal = is_2_horizontal THEN FALSE
        ELSE /\ Min(vertical[1].y, vertical[2].y) <= horizontal[1].y
             /\ horizontal[1].y <= Max(vertical[1].y, vertical[2].y)
             /\ Min(horizontal[1].x, horizontal[2].x) <= vertical[1].x
             /\ vertical[1].x <= Max(horizontal[1].x, horizontal[2].x)

\* the body of the double loop of get_crossing_bridges for the candidates
\* c1 = (i1, j1), c2 = (i2, j2): whether the pair is appended (lines 71-98)
is_crossing(p, c1, c2) ==
    LET i1_island == p.islands[c1[1] + 1]
        j1_island == p.islands[c1[2] + 1]
        i2_island == p.islands[c2[1] + 1]
        j2_island == p.islands[c2[2] + 1]
        is_1_horizontal == i1_island.y = j1_island.y
        is_2_horizontal == i2_island.y = j2_island.y
        horizontal == IF is_1_horizontal THEN <<i1_island, j1_island>>
                      ELSE <<i2_island, j2_island>>
        vertical == IF is_1_horizontal THEN <<i2_island, j2_island>>
                    ELSE <<i1_island, j1_island>>
        horizontal_min == Min(horizontal[1].x, horizontal[2].x)
        horizontal_max == Max(horizontal[1].x, horizontal[2].x)
        vertical_min == Min(vertical[1].y, vertical[2].y)
        vertical_max == Max(vertical[1].y, vertical[2].y)
    IN  IF is_1_horizontal = is_2_horizontal THEN FALSE
        ELSE /\ vertical_min < horizontal[1].y /\ horizontal[1].y < vertical_max
             /\ horizontal_min < vertical[1].x /\ vertical[1].x < horizontal_max

\* the double loop of get_crossing_bridges from its k-th iteration on
RECURSIVE crossing_from(_, _, _)
crossing_from(p, pb, k) ==
    LET m == Len(pb)
        index_1 == k \div m
        index_2 == k % m
    IN  IF k >= m * m THEN <<>>
        ELSE IF index_1 < index_2 /\ is_crossing(p, pb[index_1 + 1], pb[index_2 + 1])
        THEN <<<<pb[index_1 + 1], pb[index_2 + 1]>>>> \o crossing_from(p, pb, k + 1)
        ELSE crossing_from(p, pb, k + 1)

\* get_crossing_bridges
get_crossing_bridges(p, pb) == crossing_from(p, pb, 0)

(***************************************************************************)
(* generator.py                                                            *)
(***************************************************************************)
\* the settings table of generate; densities in hundredths
max_degree_of(diff) ==
    CASE diff = "easy" -> 8 [] diff = "medium" -> 7
      [] diff = "hard" -> 6 [] diff = "extreme" -> 5

max_island_density_of(diff) ==
    CASE diff = "easy" -> 550 [] diff = "medium" -> 450
      [] diff = "hard" -> 350 [] diff = "extreme" -> 250

shorter_bridges_of(diff) == diff = "extreme"

\* decay = 0.01, in hundredths
decay == 1

\* min_island_density after k decays, in hundredths
min_island_density(diff, k) == max_island_density_of(diff) + decay * k

\* min_island_count = max(4, floor(width * height / min_island_density))
min_island_count_of(w, h, diff, k) ==
    Max(4, (w * h * 100) \div min_island_density(diff, k))

min_island_count == min_island_count_of(width, height, difficulty, decays)

\* estimated_max_cycles = min_island_count * 10
estimated_max_cycles == min_island_count * 10

\* the adjacency scan that never finds an island
adjacent_island_never_found(g, w, h, ex, ey) == FALSE

\* the adjacency scan of generate_candidate (lines 56-66)
adjacent_island_found(g, w, h, ex, ey) ==
    \E d \in Direction :
        LET v == get_vector(d)
        IN  /\ within_bounds(w, h, ex + v[1], ey + v[2])
            /\ g[<<ex + v[1], ey + v[2]>>].type = "island"

\* list.remove(start_node): drops the first occurrence
RECURSIVE list_remove(_, _)
list_remove(s, e) ==
    IF s = <<>> THEN <<>>
    ELSE IF Head(s) = e THEN Tail(s)
    ELSE <<Head(s)>> \o list_remove(Tail(s), e)

\* is_candidate_full without the check of the last row
is_candidate_full_but_last_row(g, w, h) ==
    IF \A i \in 0 .. w - 1 : g[<<i, 0>>].type = "empty" THEN FALSE
    ELSE IF \A i \in 0 .. h - 1 : g[<<0, i>>].type = "empty" THEN FALSE
    ELSE IF \A i \in 0 .. h - 1 : g[<<w - 1, i>>].type = "empty" THEN FALSE
    ELSE TRUE

\* is_candidate_full
is_candidate_full(g, w, h) ==
    IF \A i \in 0 .. w - 1 : g[<<i, 0>>].type = "empty" THEN FALSE
    ELSE IF \A i \in 0 .. w - 1 : g[<<i, h - 1>>].type = "empty" THEN FALSE
    ELSE IF \A i \in 0 .. h - 1 : g[<<0, i>>].type = "empty" THEN FALSE
    ELSE IF \A i \in 0 .. h - 1 : g[<<w - 1, i>>].type = "empty" THEN FALSE
    ELSE TRUE

\* the planted bridge recorded as single whatever its thickness
planted_bridge_single(sx, sy, ex, ey, thickness) ==
    Bridge(Island(sx, sy, 0), Island(ex, ey, 0), TRUE)

\* Bridge(Island(start.x, start.y, 0), Island(end.x, end.y, 0), thickness == 1)
planted_bridge(sx, sy, ex, ey, thickness) ==
    Bridge(Island(sx, sy, 0), Island(ex, ey, 0), thickness = 1)

\* the seed positions followed (line 26).  On a square board one per orbit
\* of the board's symmetries (reflections, transposition), under which the
\* direction tests, the length scan, the adjacency test and the fullness
\* check are invariant; on another board the corner seed.
seed_positions(w, h) ==
    IF w = h
    THEN {q \in (0 .. w - 1) \X (0 .. h - 1) :
            q[1] <= q[2] /\ 2 * q[1] <= w - 1 /\ 2 * q[2] <= h - 1}
    ELSE {<<0, 0>>}

\* no function but generate has run
idle_derive ==
    /\ possible_bridges = <<>>
    /\ crossing_bridges = <<>>
    /\ ret = None

\* generate is called: the state at its `while True`, after `prior` earlier
\* under-count attempts
InitGenerate(calls, prior) ==
    /\ pc = "generate"
    /\ \E c \in calls : width = c[1] /\ height = c[2] /\ difficulty = c[3]
    /\ decays = prior
    /\ grid = <<>>
    /\ island_count = 0
    /\ solution = <<>>
    /\ to_expand = <<>>
    /\ cycle = 0
    /\ puzzle = NoPuzzle
    /\ idle_derive

InitGen == InitGenerate(GenerateCalls, 0)

\* the decays followed: MaxDecay past those that precede the first attempt
decay_cap ==
    (IF <<width, height, difficulty>> \in LoosenedCalls THEN PriorDecays ELSE 0) + MaxDecay

\* generate lines 132-143 entering generate_candidate lines 22-27: a fresh
\* grid with the seed island at a random position
StartCandidate ==
    /\ pc = "generate"
    /\ decays <= decay_cap
    /\ \E seed \in seed_positions(width, height) :
          /\ grid' = [NewGrid(width, height) EXCEPT ![seed] = to_island(0)]
          /\ to_expand' = <<seed>>
    /\ island_count' = 0
    /\ solution' = <<>>
    /\ cycle' = 0
    /\ pc' = "candidate"
    /\ UNCHANGED <<width, height, difficulty, decays, puzzle, derive_vars>>

\* the loop of generate_candidate still runs (lines 29-34)
loop_runs ==
    /\ cycle < estimated_max_cycles
    /\ Len(to_expand) # 0
    /\ island_count < min_island_count

\* one iteration ending in `to_expand.remove(start_node); continue`
\* (no direction available, lines 39-41, or degree at capacity, lines 42-44)
CycleRemove ==
    /\ pc = "candidate"
    /\ loop_runs
    /\ \E i \in 1 .. Len(to_expand) :
          LET s == to_expand[i]
              dirs == available_directions(grid, width, height, s[1], s[2])
          IN  /\ \/ dirs = {}
                 \/ grid[s].degree >= max_degree_of(difficulty)
              /\ to_expand' = list_remove(to_expand, s)
    /\ cycle' = cycle + 1
    /\ UNCHANGED <<pc, width, height, difficulty, decays, grid, island_count,
                   solution, puzzle, derive_vars>>

\* the end node of a drawn bridge (lines 51-54)
end_node(s, d, length) ==
    LET v == get_vector(d)
    IN  <<s[1] + v[1] * (length + 1), s[2] + v[2] * (length + 1)>>

\* the draws of one iteration that reaches line 56: start node, direction,
\* thickness, length
cycle_draws ==
    UNION {UNION {{<<s, d, t, l>> :
                     t \in thickness_choices(grid, s[1], s[2], max_degree_of(difficulty)),
                     l \in length_choices(grid, width, height, s[1], s[2], d,
                                          shorter_bridges_of(difficulty))} :
                  d \in available_directions(grid, width, height, s[1], s[2])} :
           s \in {q \in {to_expand[i] : i \in 1 .. Len(to_expand)} :
                    grid[q].degree < max_degree_of(difficulty)}}

\* one iteration ending in `if adjacent_island_found: continue` (lines 67-68)
CycleAdjacent ==
    /\ pc = "candidate"
    /\ loop_runs
    /\ \E c \in cycle_draws :
          LET e == end_node(c[1], c[2], c[4])
          IN  adjacent_island_found(grid, width, height, e[1], e[2])
    /\ cycle' = cycle + 1
    /\ UNCHANGED <<pc, width, height, difficulty, decays, grid, island_count,
                   solution, to_expand, puzzle, derive_vars>>

\* lines 70-75 without `end_node.to_island(thickness)`
commit_grid_without_end_island(g, s, e, t, l, d) ==
    add_bridge([g EXCEPT ![s] = [@ EXCEPT !.degree = @ + t]], s[1], s[2], l, d)

\* the grid after lines 70-75
commit_grid(g, s, e, t, l, d) ==
    add_bridge([g EXCEPT ![s] = [@ EXCEPT !.degree = @ + t], ![e] = to_island(t)],
               s[1], s[2], l, d)

\* one iteration that commits a bridge (lines 70-82)
CycleCommit ==
    /\ pc = "candidate"
    /\ loop_runs
    /\ \E c \in cycle_draws :
          LET s == c[1]
              e == end_node(c[1], c[2], c[4])
          IN  /\ ~adjacent_island_found(grid, width, height, e[1], e[2])
              /\ grid' = commit_grid(grid, s, e, c[3], c[4], c[2])
              /\ to_expand' = Append(to_expand, e)
              /\ solution' = Append(solution, planted_bridge(s[1], s[2], e[1], e[2], c[3]))
    /\ island_count' = island_count + 1
    /\ cycle' = cycle + 1
    /\ UNCHANGED <<pc, width, height, difficulty, decays, puzzle, derive_vars>>

\* the attempt's grid, count and solution are dropped when generate's loop
\* starts over; generate_candidate's own locals when it returns
drop_candidate ==
    /\ grid' = <<>>
    /\ island_count' = 0
    /\ solution' = <<>>
    /\ to_expand' = <<>>
    /\ cycle' = 0

\* generate_candidate returns and generate's loop starts over: with too few
\* islands after loosening the density (lines 146-148), with enough islands
\* but an empty outer row or column with the density as it is (line 151)
Retry ==
    /\ pc = "candidate"
    /\ ~loop_runs
    /\ IF island_count < min_island_count
       THEN decays' = decays + 1
       ELSE ~is_candidate_full(grid, width, height) /\ decays' = decays
    /\ pc' = "generate"
    /\ drop_candidate
    /\ UNCHANGED <<width, height, difficulty, puzzle, derive_vars>>

\* generate lines 151-154: break and return grid.to_puzzle().with_solution(...)
Return ==
    /\ pc = "candidate"
    /\ ~loop_runs
    /\ island_count >= min_island_count
    /\ is_candidate_full(grid, width, height)
    /\ puzzle' = with_solution(to_puzzle(grid, width, height), solution)
    /\ pc' = "returned"
    /\ to_expand' = <<>>
    /\ cycle' = 0
    /\ UNCHANGED <<width, height, difficulty, decays, grid, island_count,
                   solution, derive_vars>>

NextGen ==
    \/ StartCandidate
    \/ CycleRemove
    \/ CycleAdjacent
    \/ CycleCommit
    \/ Retry
    \/ Return

SpecGen == InitGen /\ [][NextGen]_vars

\* generate keeps running: a single thread that never blocks
FairSpecGen == SpecGen /\ WF_vars(NextGen)

InitGenLoosened == InitGenerate(LoosenedCalls, PriorDecays)

SpecGenLoosened == InitGenLoosened /\ [][NextGen]_vars

(***************************************************************************)
(* check_solution and __str__ on bounded puzzles                           *)
(***************************************************************************)
\* generate is not running
idle_generate ==
    /\ difficulty = "none"
    /\ decays = 0
    /\ grid = <<>>
    /\ island_count = 0
    /\ solution = <<>>
    /\ to_expand = <<>>
    /\ cycle = 0

\* the sum of a sequence of integers
RECURSIVE seq_sum(_)
seq_sum(f) == IF Len(f) = 0 THEN 0 ELSE Head(f) + seq_sum(Tail(f))

\* the elements of a sequence
Range(f) == {f[k] : k \in 1 .. Len(f)}

\* island lists of length n: positions from P pairwise distinct, degrees from D
IslandTuples(P, D, n) ==
    {[i \in 1 .. n |-> Island(f[i][1][1], f[i][1][2], f[i][2])] :
        f \in {g \in [1 .. n -> P \X D] :
                 \A i, j \in 1 .. n : i < j => g[i][1] # g[j][1]}}

\* the bridges between two different islands of a list, single or double
BridgeChoices(islands) ==
    {Bridge(islands[i], islands[j], single) :
        i \in 1 .. Len(islands), j \in 1 .. Len(islands), single \in BOOLEAN} \
    {Bridge(islands[i], islands[i], single) :
        i \in 1 .. Len(islands), single \in BOOLEAN}

\* bridge lists of length at most m over a list of islands
BridgeSeqs(islands, m) == UNION {[1 .. k -> BridgeChoices(islands)] : k \in 0 .. m}

CheckPositions == {<<0, 0>>, <<CheckWidth - 1, 0>>, <<0, CheckHeight - 1>>,
                   <<CheckWidth - 1, CheckHeight - 1>>}

\* check_solution or __str__ is about to be called on a puzzle with a solution
InitCheck ==
    /\ pc = "check"
    /\ \E n \in 0 .. MaxCheckIslands :
          \E isl \in IslandTuples(CheckPositions, 0 .. MaxCheckDegree, n) :
             \E sol \in BridgeSeqs(isl, MaxCheckBridges) :
                puzzle = with_solution(Puzzle(CheckWidth, CheckHeight, isl), sol)
    /\ width = CheckWidth
    /\ height = CheckHeight
    /\ idle_generate
    /\ idle_derive

\* puzzle.check_solution() is called
CheckSolution ==
    /\ pc = "check"
    /\ ret' = check_solution(puzzle)
    /\ pc' = "checked"
    /\ UNCHANGED <<width, height, puzzle, possible_bridges, crossing_bridges, gen_vars>>

\* str(puzzle) is called
Render ==
    /\ pc = "check"
    /\ ret' = str_symbols(puzzle)
    /\ pc' = "printed"
    /\ UNCHANGED <<width, height, puzzle, possible_bridges, crossing_bridges, gen_vars>>

NextCheck == CheckSolution \/ Render

SpecCheck == InitCheck /\ [][NextCheck]_vars

\* the weight of the bridges of p's solution that end at position q
RefIncidentWeight(p, q) ==
    seq_sum([k \in 1 .. Len(p.solution) |->
                IF q \in {pos(p.solution[k].node1), pos(p.solution[k].node2)}
                THEN bridge_weight(p.solution[k]) ELSE 0])

\* the positions joined to a position of S by a chain of bridges of p's solution
RECURSIVE RefClosure(_, _)
RefClosure(p, S) ==
    LET T == S \cup {pos(b.node1) : b \in {c \in Range(p.solution) : pos(c.node2) \in S}}
                 \cup {pos(b.node2) : b \in {c \in Range(p.solution) : pos(c.node1) \in S}}
    IN  IF T = S THEN S ELSE RefClosure(p, T)

\* the result the verifier is specified to give
RefCheck(p) ==
    IF \E i \in 1 .. Len(p.islands) :
          p.islands[i].degree - RefIncidentWeight(p, pos(p.islands[i])) # 0
    THEN Verdict(FALSE, "Islands do not match bridges")
    ELSE IF \E i \in 1 .. Len(p.islands) :
               pos(p.islands[i]) \notin RefClosure(p, {pos(p.islands[1])})
    THEN Verdict(FALSE, "Islands are not fully connected")
    ELSE Verdict(TRUE, "Success")

\* C7: for a puzzle whose solution's bridges end at positions of its islands,
\* check_solution returns the (pass/fail, reason) pair of the reference: the
\* degree failure when some island's degree minus its incident bridge weights
\* is not zero, else the connectivity failure when some island is not reached
\* from the first island, else pass; it raises nothing.
C7_CheckEqualsReference == pc = "checked" => ret = RefCheck(puzzle)

\* some bridge of p's solution joins islands that share neither x nor y
has_diagonal_bridge(p) ==
    \E k \in 1 .. Len(p.solution) :
        /\ p.solution[k].node1.x # p.solution[k].node2.x
        /\ p.solution[k].node1.y # p.solution[k].node2.y

\* C8: a solution with a bridge whose endpoints share neither an x nor a y
\* coordinate fails fast in both places: check_solution does not return pass
\* for it, and __str__ raises an error.
C8_DiagonalFailsFast ==
    has_diagonal_bridge(puzzle) =>
        /\ pc = "checked" => ~(ret.kind = "verdict" /\ ret.ok)
        /\ pc = "printed" => ret.kind = "raised"

(***************************************************************************)
(* get_possible_bridges and get_crossing_bridges on bounded puzzles        *)
(***************************************************************************)
\* the puzzles given to the derivers: every island list on the board, with a
\* common degree of 0 or 2, without a solution or with a double bridge
\* between the first two islands
InitDerive ==
    /\ pc = "derive"
    /\ \E n \in 0 .. MaxDeriveIslands, d \in {0, 2} :
          \E isl \in IslandTuples((0 .. DeriveWidth - 1) \X (0 .. DeriveHeight - 1), {d}, n) :
             \/ puzzle = Puzzle(DeriveWidth, DeriveHeight, isl)
             \/ /\ n >= 2
                /\ puzzle = with_solution(Puzzle(DeriveWidth, DeriveHeight, isl),
                                          <<Bridge(isl[1], isl[2], FALSE)>>)
    /\ width = DeriveWidth
    /\ height = DeriveHeight
    /\ idle_generate
    /\ idle_derive

\* get_possible_bridges(puzzle, puzzle.to_grid()) is called (solver.py line 107)
GetPossibleBridges ==
    /\ pc = "derive"
    /\ possible_bridges' = get_possible_bridges(puzzle, to_grid(puzzle))
    /\ pc' = "derived"
    /\ UNCHANGED <<width, height, puzzle, crossing_bridges, ret, gen_vars>>

\* get_crossing_bridges(puzzle, possible_bridges) is called (solver.py line 108)
GetCrossingBridges ==
    /\ pc = "derived"
    /\ crossing_bridges' = get_crossing_bridges(puzzle, possible_bridges)
    /\ pc' = "crossed"
    /\ UNCHANGED <<width, height, puzzle, possible_bridges, ret, gen_vars>>

NextDerive == GetPossibleBridges \/ GetCrossingBridges

SpecDerive == InitDerive /\ [][NextDerive]_vars

\* islands i and j (0-based) of p share a line
RefAligned(p, i, j) ==
    \/ p.islands[i + 1].x = p.islands[j + 1].x
    \/ p.islands[i + 1].y = p.islands[j + 1].y

\* island k of p lies strictly between islands i and j on their common line
RefBetween(p, k, i, j) ==
    LET a == p.islands[i + 1]
        b == p.islands[j + 1]
        c == p.islands[k + 1]
    IN  \/ a.x = b.x /\ c.x = a.x /\ Min(a.y, b.y) < c.y /\ c.y < Max(a.y, b.y)
        \/ a.y = b.y /\ c.y = a.y /\ Min(a.x, b.x) < c.x /\ c.x < Max(a.x, b.x)

\* the candidate set as specified, from the islands' positions alone
RefPossible(p) ==
    {c \in (0 .. Len(p.islands) - 1) \X (0 .. Len(p.islands) - 1) :
        /\ c[1] < c[2]
        /\ RefAligned(p, c[1], c[2])
        /\ \A k \in 0 .. Len(p.islands) - 1 : ~RefBetween(p, k, c[1], c[2])}

\* C9: for pairwise distinct in-bounds island positions get_possible_bridges
\* returns exactly the index pairs (i, j), i < j, of islands that share an x
\* or a y coordinate with no other island strictly between them, each once,
\* whatever the degrees and whatever solution is attached.
C9_PossibleEqualsReference ==
    pc \in {"derived", "crossed"} =>
        /\ Range(possible_bridges) = RefPossible(puzzle)
        /\ Len(possible_bridges) = Cardinality(RefPossible(puzzle))

\* C9's case: a call that returns candidates and leaves out an aligned pair
\* because an island lies between
C9_Witness ==
    /\ pc = "derived"
    /\ Len(possible_bridges) >= 2
    /\ puzzle.has_solution
    /\ \E i, j, k \in 0 .. Len(puzzle.islands) - 1 :
          /\ i < j
          /\ RefBetween(puzzle, k, i, j)
          /\ <<i, j>> \notin Range(possible_bridges)

\* candidate c of p runs along a row
RefHorizontal(p, c) == p.islands[c[1] + 1].y = p.islands[c[2] + 1].y

\* horizontal candidate h and vertical candidate v of p cross strictly inside
RefCross(p, h, v) ==
    LET hy == p.islands[h[1] + 1].y
        vx == p.islands[v[1] + 1].x
        hx1 == p.islands[h[1] + 1].x
        hx2 == p.islands[h[2] + 1].x
        vy1 == p.islands[v[1] + 1].y
        vy2 == p.islands[v[2] + 1].y
    IN  /\ Min(vy1, vy2) < hy /\ hy < Max(vy1, vy2)
        /\ Min(hx1, hx2) < vx /\ vx < Max(hx1, hx2)

\* the crossing pairs as specified, as two-element sets of candidates
RefCrossing(p, pb) ==
    {{h, v} : <<h, v>> \in {q \in Range(pb) \X Range(pb) :
                              /\ RefHorizontal(p, q[1])
                              /\ ~RefHorizontal(p, q[2])
                              /\ RefCross(p, q[1], q[2])}}

\* C10: for the candidates of get_possible_bridges, get_crossing_bridges
\* returns exactly the unordered pairs of one horizontal and one vertical
\* candidate that cross strictly inside both, each pair once, and never two
\* candidates of the same orientation.
C10_CrossingEqualsReference ==
    pc = "crossed" =>
        /\ {{crossing_bridges[k][1], crossing_bridges[k][2]} :
               k \in 1 .. Len(crossing_bridges)} = RefCrossing(puzzle, possible_bridges)
        /\ Len(crossing_bridges) = Cardinality(RefCrossing(puzzle, possible_bridges))
        /\ \A k \in 1 .. Len(crossing_bridges) :
              RefHorizontal(puzzle, crossing_bridges[k][1])
                  # RefHorizontal(puzzle, crossing_bridges[k][2])

\* C10's case: a call that returns a crossing pair and passes over two
\* candidates that meet at an island
C10_Witness ==
    /\ pc = "crossed"
    /\ Len(crossing_bridges) >= 1
    /\ \E a, b \in Range(possible_bridges) :
          /\ RefHorizontal(puzzle, a) /\ ~RefHorizontal(puzzle, b)
          /\ {a[1], a[2]} \cap {b[1], b[2]} # {}


(***************************************************************************)
(* solve on bounded puzzles                                                *)
(*                                                                         *)
(* The integer program of solve lines 113-161 is given to CBC, which is    *)
(* not part of the repository: it is modelled by its contract, status      *)
(* Optimal with a minimiser of the objective when the constraints have a   *)
(* solution, Infeasible otherwise.  The flow variables are continuous in   *)
(* the code; with integer demands and capacities a flow exists exactly     *)
(* when an integer flow exists, so flows range over 0 .. island_count - 1. *)
(***************************************************************************)
\* the keys of the dict f (lines 117-118)
flow_arcs(pb) == Range(pb) \cup {<<c[2], c[1]>> : c \in Range(pb)}

\* lines 124-130: lpSum(island_bridges) == island.degree for island i
island_degree_holds(p, pb, b, i) ==
    seq_sum([k \in 1 .. Len(pb) |->
                IF pb[k][1] = i \/ pb[k][2] = i THEN b[pb[k]] ELSE 0])
        = p.islands[i + 1].degree

\* lines 133-135: y <= b and b <= 2 * y for a candidate
bridge_existence_holds(b, y, c) == y[c] <= b[c] /\ b[c] <= 2 * y[c]

\* lines 143-157: outflow minus inflow of island i is island_count - 1 at the
\* root and -1 elsewhere
flow_conservation_holds(n, pb, f, i) ==
    LET outflow == seq_sum([k \in 1 .. Len(pb) |->
                              IF pb[k][1] = i THEN f[<<i, pb[k][2]>>]
                              ELSE IF pb[k][2] = i THEN f[<<i, pb[k][1]>>] ELSE 0])
        inflow == seq_sum([k \in 1 .. Len(pb) |->
                             IF pb[k][1] = i THEN f[<<pb[k][2], i>>]
                             ELSE IF pb[k][2] = i THEN f[<<pb[k][1], i>>] ELSE 0])
    IN  outflow - inflow = (IF i = 0 THEN n - 1 ELSE -1)

\* the capacity constraint with capacity y[(i, j)] in place of
\* (island_count - 1) * y[(i, j)]
flow_capacity_unit(n, y, f, c) == f[c] + f[<<c[2], c[1]>>] <= y[c]

\* lines 160-161: f[(i, j)] + f[(j, i)] <= (island_count - 1) * y[(i, j)]
flow_capacity_holds(n, y, f, c) == f[c] + f[<<c[2], c[1]>>] <= (n - 1) * y[c]

\* some flow satisfies the conservation and capacity constraints under y:
\* every value of f tried
flow_exists_unpruned(n, pb, y) ==
    \E f \in [flow_arcs(pb) -> 0 .. n - 1] :
        /\ \A c \in Range(pb) : flow_capacity_holds(n, y, f, c)
        /\ \A i \in 0 .. n - 1 : flow_conservation_holds(n, pb, f, i)

\* the index of the last candidate that ends at island i, 0 if there is none
last_candidate(pb, i) ==
    IF \E k \in 1 .. Len(pb) : i \in {pb[k][1], pb[k][2]}
    THEN CHOOSE k \in 1 .. Len(pb) :
            /\ i \in {pb[k][1], pb[k][2]}
            /\ \A m \in k + 1 .. Len(pb) : i \notin {pb[m][1], pb[m][2]}
    ELSE 0

\* the right-hand side of island i's conservation constraint
flow_demand(n, i) == IF i = 0 THEN n - 1 ELSE -1

\* the same search for f, one candidate at a time from the k-th on: the two
\* flows of the candidate are chosen within its capacity constraint, net[i]
\* is outflow minus inflow of island i over the candidates before k, and an
\* island's conservation constraint is tested once its last candidate is
\* chosen
RECURSIVE flow_search(_, _, _, _, _)
flow_search(n, pb, y, k, net) ==
    IF k > Len(pb) THEN TRUE
    ELSE LET i == pb[k][1]
             j == pb[k][2]
         IN  \E fij \in 0 .. n - 1, fji \in 0 .. n - 1 :
                /\ flow_capacity_holds(n, y, (<<i, j>> :> fij) @@ (<<j, i>> :> fji), pb[k])
                /\ LET net2 == [net EXCEPT ![i] = @ + fij - fji, ![j] = @ + fji - fij]
                   IN  /\ \A u \in {i, j} :
                             last_candidate(pb, u) = k => net2[u] = flow_demand(n, u)
                       /\ flow_search(n, pb, y, k + 1, net2)

\* some flow satisfies the conservation and capacity constraints under y
flow_exists(n, pb, y) ==
    /\ \A i \in 0 .. n - 1 : last_candidate(pb, i) = 0 => 0 = flow_demand(n, i)
    /\ flow_search(n, pb, y, 1, [i \in 0 .. n - 1 |-> 0])

\* no_crossing_holds without the constraint
no_crossing_unconstrained(y, pair) == TRUE

\* lines 138-139: y[bridge1] + y[bridge2] <= 1 for a crossing pair
no_crossing_holds(y, pair) == y[pair[1]] + y[pair[2]] <= 1

\* the values <<b, y>> that satisfy every constraint of the problem
feasible_points(p, pb, cb) ==
    UNION {{<<b, y>> : y \in {z \in [Range(pb) -> 0 .. 1] :
                                /\ \A c \in Range(pb) : bridge_existence_holds(b, z, c)
                                /\ \A k \in 1 .. Len(cb) : no_crossing_holds(z, cb[k])
                                /\ flow_exists(Len(p.islands), pb, z)}} :
           b \in {a \in [Range(pb) -> 0 .. 2] :
                    \A i \in 0 .. Len(p.islands) - 1 : island_degree_holds(p, pb, a, i)}}

\* line 121: the objective lpSum(b)
objective(pb, b) == seq_sum([k \in 1 .. Len(pb) |-> b[pb[k]]])

\* lines 167-176: the bridges with value(b) > 0.5, in candidate order
RECURSIVE extract_solution(_, _, _, _)
extract_solution(p, pb, b, k) ==
    IF k > Len(pb) THEN <<>>
    ELSE IF b[pb[k]] > 0
    THEN <<Bridge(p.islands[pb[k][1] + 1], p.islands[pb[k][2] + 1], b[pb[k]] = 1)>>
             \o extract_solution(p, pb, b, k + 1)
    ELSE extract_solution(p, pb, b, k + 1)

\* a returned tuple of bridges
Solution(bridges) == [kind |-> "solution", bridges |-> bridges]

\* what solve can return for p: the bridges of a minimiser, or None
solve_results(p, pb, cb) ==
    LET feasible == feasible_points(p, pb, cb)
        optimal == {v \in feasible :
                      \A u \in feasible : objective(pb, v[1]) <= objective(pb, u[1])}
    IN  IF feasible = {} THEN {None}
        ELSE {Solution(extract_solution(p, pb, v[1], 1)) : v \in optimal}

\* the grid with an island of degree deg[q] on every cell q of S
grid_with(w, h, S, deg) ==
    [q \in (0 .. w - 1) \X (0 .. h - 1) |->
        IF q \in S THEN to_island(deg[q]) ELSE EmptyNode]

\* solve is about to be called on a puzzle without solution
InitSolve ==
    /\ pc = "solve"
    /\ \/ /\ \E S \in SUBSET ((0 .. SolveWidth - 1) \X (0 .. SolveHeight - 1)) :
                /\ Cardinality(S) <= MaxSolveIslands
                /\ \E deg \in [S -> 0 .. MaxSolveDegree] :
                      puzzle = to_puzzle(grid_with(SolveWidth, SolveHeight, S, deg),
                                         SolveWidth, SolveHeight)
          /\ width = SolveWidth
          /\ height = SolveHeight
       \/ /\ \E deg \in [CrossIslands -> 1 .. MaxSolveDegree] :
                puzzle = to_puzzle(grid_with(CrossWidth, CrossHeight, CrossIslands, deg),
                                   CrossWidth, CrossHeight)
          /\ width = CrossWidth
          /\ height = CrossHeight
    /\ idle_generate
    /\ idle_derive

\* solve(puzzle) runs (solver.py lines 103-179)
Solve ==
    /\ pc = "solve"
    /\ LET pb == get_possible_bridges(puzzle, to_grid(puzzle))
           cb == get_crossing_bridges(puzzle, pb)
       IN  /\ possible_bridges' = pb
           /\ crossing_bridges' = cb
           /\ ret' \in solve_results(puzzle, pb, cb)
    /\ pc' = "solved"
    /\ UNCHANGED <<width, height, puzzle, gen_vars>>

\* demo.py lines 9-11: a returned solution is attached and verified
VerifySolved ==
    /\ pc = "solved"
    /\ ret # None
    /\ puzzle' = with_solution(puzzle, ret.bridges)
    /\ ret' = check_solution(with_solution(puzzle, ret.bridges))
    /\ pc' = "verified"
    /\ UNCHANGED <<width, height, possible_bridges, crossing_bridges, gen_vars>>

NextSolve == Solve \/ VerifySolved

SpecSolve == InitSolve /\ [][NextSolve]_vars

\* every island's degree is the weight of its bridges and every island is
\* joined to the first by bridges
RefAccepted(p) ==
    /\ \A i \in 1 .. Len(p.islands) :
          RefIncidentWeight(p, pos(p.islands[i])) = p.islands[i].degree
    /\ \A i \in 1 .. Len(p.islands) :
          pos(p.islands[i]) \in RefClosure(p, {pos(p.islands[1])})

\* C2: whenever solve returns a bridge set, that set attached to the puzzle
\* passes check_solution: every island's degree equals the summed weight of
\* its returned bridges, and the returned bridges join all islands into one
\* component.
C2_SolvedPassesCheck ==
    pc = "verified" => ret = Verdict(TRUE, "Success") /\ RefAccepted(puzzle)

\* the one-candidate-at-a-time search finds a flow exactly when trying every
\* value of f does (compared on the first board, once per island list: the
\* question does not read the degrees)
FlowSearchAgrees ==
    (/\ pc = "solved"
     /\ width = SolveWidth
     /\ \A i \in 1 .. Len(puzzle.islands) : puzzle.islands[i].degree = 0) =>
        \A y \in [Range(possible_bridges) -> 0 .. 1] :
            flow_exists(Len(puzzle.islands), possible_bridges, y)
                = flow_exists_unpruned(Len(puzzle.islands), possible_bridges, y)

\* C2 for the puzzles that have an island
SolvedPassesCheckWithIslands ==
    (pc = "verified" /\ Len(puzzle.islands) > 0) =>
        ret = Verdict(TRUE, "Success") /\ RefAccepted(puzzle)


(***************************************************************************)
(* Properties of the puzzles generate returns                              *)
(***************************************************************************)
\* C1: check_solution passes on every puzzle generate returns: each island's
\* degree equals the summed weight of its planted bridges and every island is
\* reachable from the first island over the planted bridges.
C1_GeneratedPassesCheck ==
    pc = "returned" =>
        /\ check_solution(puzzle) = Verdict(TRUE, "Success")
        /\ RefAccepted(puzzle)

\* C1's case: a returned puzzle with a double bridge, a single bridge and an
\* island that ends three bridges
C1_Witness ==
    /\ pc = "returned"
    /\ \E k \in 1 .. Len(puzzle.solution) : puzzle.solution[k].single
    /\ \E k \in 1 .. Len(puzzle.solution) : ~puzzle.solution[k].single
    /\ \E i \in 1 .. Len(puzzle.islands) :
          Cardinality({k \in 1 .. Len(puzzle.solution) :
                          pos(puzzle.islands[i]) \in {pos(puzzle.solution[k].node1),
                                                      pos(puzzle.solution[k].node2)}}) >= 3

\* the cells of the four outer lines of a w x h board
outer_lines(w, h) ==
    {{<<i, 0>> : i \in 0 .. w - 1}, {<<i, h - 1>> : i \in 0 .. w - 1},
     {<<0, i>> : i \in 0 .. h - 1}, {<<w - 1, i>> : i \in 0 .. h - 1}}

\* C6: the board of a returned puzzle has no fully empty outer row or column:
\* each of the lines x = 0, x = width - 1, y = 0, y = height - 1 holds a cell
\* that is not empty.
C6_ReturnedBoardFull ==
    pc = "returned" =>
        \A line \in outer_lines(width, height) : \E q \in line : grid[q].type # "empty"

\* C6's case: a puzzle returned on a board where attempts can leave an outer
\* line empty, one of whose outer lines holds a single non-empty cell
C6_Witness ==
    /\ pc = "returned"
    /\ width # height
    /\ \E line \in outer_lines(width, height) :
          Cardinality({q \in line : grid[q].type # "empty"}) = 1

\* C4 as stated: the returned puzzle has at least as many islands as the
\* threshold max(4, floor(width * height / density)) of the tier's own density.
C4_TierThreshold ==
    pc = "returned" =>
        Len(puzzle.islands) >= min_island_count_of(width, height, difficulty, 0)

\* C4 amended: the returned puzzle has at least as many islands as the
\* threshold of the density in force at the accepted attempt, which is the
\* tier's density plus one decay step per under-count attempt before it.
C4_LoosenedThreshold ==
    pc = "returned" =>
        Len(puzzle.islands) >= min_island_count_of(width, height, difficulty, decays)

\* C4's case: a puzzle returned after the density was loosened, with fewer
\* islands than the tier's own threshold
C4_Witness ==
    /\ pc = "returned"
    /\ decays > 0
    /\ Len(puzzle.islands) < min_island_count_of(width, height, difficulty, 0)

(***************************************************************************)
(* Planted and solved solutions together                                   *)
(***************************************************************************)
InitSolutions == InitGen \/ InitSolve

NextSolutions == NextGen \/ NextSolve

SpecSolutions == InitSolutions /\ [][NextSolutions]_vars

\* some bridge of p's solution joins the two islands of candidate c
realized(p, c) ==
    \E k \in 1 .. Len(p.solution) :
        {pos(p.solution[k].node1), pos(p.solution[k].node2)}
            = {pos(p.islands[c[1] + 1]), pos(p.islands[c[2] + 1])}

\* the crossing pairs get_crossing_bridges computes for p's islands
crossing_pairs_of(p) ==
    get_crossing_bridges(p, get_possible_bridges(p, to_grid(p)))

\* C3: in a solution planted by generate or returned by solve, no two bridges
\* are the two members of a pair of the crossing-pair set that
\* get_crossing_bridges computes for the puzzle's islands.
C3_NoCrossingRealized ==
    pc \in {"returned", "verified"} =>
        \A k \in 1 .. Len(crossing_pairs_of(puzzle)) :
            ~(/\ realized(puzzle, crossing_pairs_of(puzzle)[k][1])
              /\ realized(puzzle, crossing_pairs_of(puzzle)[k][2]))

\* C3's case: a solution over islands that have a crossing pair of
\* candidates, one member of which is a bridge of the solution
C3_Witness ==
    /\ pc \in {"returned", "verified"}
    /\ \E k \in 1 .. Len(crossing_pairs_of(puzzle)) :
          \/ realized(puzzle, crossing_pairs_of(puzzle)[k][1])
          \/ realized(puzzle, crossing_pairs_of(puzzle)[k][2])


(***************************************************************************)
(* Islands and planted bridges during an attempt                           *)
(***************************************************************************)
\* cells p and q are orthogonal neighbours
RefNeighbours(p, q) ==
    \/ p[1] = q[1] /\ (p[2] = q[2] + 1 \/ q[2] = p[2] + 1)
    \/ p[2] = q[2] /\ (p[1] = q[1] + 1 \/ q[1] = p[1] + 1)

\* no two island cells of grid g are orthogonal neighbours
NoAdjacentIslands(g) ==
    \A p, q \in DOMAIN g :
        (g[p].type = "island" /\ g[q].type = "island") => ~RefNeighbours(p, q)

\* a step of an attempt that changes the board, a degree, the island count or
\* the planted solution is a commit: it appends one bridge and one frontier
\* node, counts one island and makes an island of a cell that was none and
\* had no island among its neighbours
CommitsOnlyAwayFromIslands ==
    (/\ pc = "candidate"
     /\ pc' = "candidate"
     /\ <<grid, island_count, solution>>' # <<grid, island_count, solution>>) =>
        LET e == to_expand'[Len(to_expand')]
        IN  /\ to_expand' = Append(to_expand, e)
            /\ island_count' = island_count + 1
            /\ Len(solution') = Len(solution) + 1
            /\ grid[e].type # "island"
            /\ grid'[e].type = "island"
            /\ \A q \in DOMAIN grid : RefNeighbours(e, q) => grid[q].type # "island"

\* C11: in every state of a generation attempt, after the seed placement and
\* after every committed bridge, and in every returned puzzle, no two island
\* cells are orthogonally adjacent; a cycle whose new-island position has an
\* island among its 4 neighbours commits nothing: board, degrees, frontier,
\* island count and planted solution change only in a commit whose new
\* island has no island neighbour.
C11_NoAdjacentIslands ==
    /\ [](pc \in {"candidate", "returned"} => NoAdjacentIslands(grid))
    /\ [][CommitsOnlyAwayFromIslands]_vars

\* C11's case: an attempt with three islands in which some cycle was
\* rejected by the adjacency scan (a cycle that neither committed nor removed
\* a frontier node) and in which a draw that the scan rejects is possible
C11_Witness ==
    /\ pc = "candidate"
    /\ island_count >= 2
    /\ cycle > island_count + (island_count + 1 - Len(to_expand))
    /\ \E c \in cycle_draws :
          LET e == end_node(c[1], c[2], c[4])
          IN  \E q \in DOMAIN grid : RefNeighbours(e, q) /\ grid[q].type = "island"


\* the 0-based indices of the islands of p at position q
indices_at(p, q) == {i \in 0 .. Len(p.islands) - 1 : pos(p.islands[i + 1]) = q}

\* bridge b of p's solution satisfies the Bridge invariant with respect to p
RefBridgeInvariant(p, b) ==
    \E i \in indices_at(p, pos(b.node1)), j \in indices_at(p, pos(b.node2)) :
        /\ i # j
        /\ (b.node1.x = b.node2.x) # (b.node1.y = b.node2.y)
        /\ \A k \in 0 .. Len(p.islands) - 1 : ~RefBetween(p, k, i, j)
        /\ <<Min(i, j), Max(i, j)>> \in Range(get_possible_bridges(p, to_grid(p)))

\* C12: every bridge of the planted solution of a returned puzzle joins the
\* positions of two distinct islands of the puzzle that share exactly one
\* coordinate, with no island of the puzzle strictly between them, so the
\* pair of island indices is a candidate of get_possible_bridges for the
\* puzzle; and no two planted bridges join the same pair of islands.
C12_PlantedBridgesAreCandidates ==
    pc = "returned" =>
        /\ \A k \in 1 .. Len(puzzle.solution) :
              RefBridgeInvariant(puzzle, puzzle.solution[k])
        /\ \A k, m \in 1 .. Len(puzzle.solution) :
              k # m => {pos(puzzle.solution[k].node1), pos(puzzle.solution[k].node2)}
                           # {pos(puzzle.solution[m].node1), pos(puzzle.solution[m].node2)}

\* C12's case: a returned puzzle with a planted bridge longer than one cell,
\* a planted bridge listed from the higher island index to the lower, and
\* two aligned islands that are no candidate because an island lies between
C12_Witness ==
    /\ pc = "returned"
    /\ \E k \in 1 .. Len(puzzle.solution) :
          LET b == puzzle.solution[k]
          IN  Max(b.node1.x, b.node2.x) - Min(b.node1.x, b.node2.x)
                  + Max(b.node1.y, b.node2.y) - Min(b.node1.y, b.node2.y) >= 3
    /\ \E k \in 1 .. Len(puzzle.solution) :
          \E i \in indices_at(puzzle, pos(puzzle.solution[k].node1)),
             j \in indices_at(puzzle, pos(puzzle.solution[k].node2)) : i > j
    /\ \E i, j, k \in 0 .. Len(puzzle.islands) - 1 : RefBetween(puzzle, k, i, j)


(***************************************************************************)
(* Layouts the constraint model of solve must keep                         *)
(***************************************************************************)
\* the islands (0-based indices) joined to an island of S by candidates
\* that b gives a positive weight
RECURSIVE RefJoined(_, _, _)
RefJoined(pb, b, S) ==
    LET T == S \cup {c[2] : c \in {d \in Range(pb) : b[d] > 0 /\ d[1] \in S}}
               \cup {c[1] : c \in {d \in Range(pb) : b[d] > 0 /\ d[2] \in S}}
    IN  IF T = S THEN S ELSE RefJoined(pb, b, T)

\* the valid layouts of p: weights in {0, 1, 2} on the candidates that meet
\* every island's degree, realize at most one bridge of every crossing pair
\* and connect all islands
RefLayouts(p, pb, cb) ==
    {b \in [Range(pb) -> 0 .. 2] :
        /\ \A i \in 0 .. Len(p.islands) - 1 :
              seq_sum([k \in 1 .. Len(pb) |-> IF i \in {pb[k][1], pb[k][2]}
                                              THEN b[pb[k]] ELSE 0])
                  = p.islands[i + 1].degree
        /\ \A k \in 1 .. Len(cb) : ~(b[cb[k][1]] > 0 /\ b[cb[k][2]] > 0)
        /\ \A i \in 0 .. Len(p.islands) - 1 : i \in RefJoined(pb, b, {0})}

\* C13: the constraint model of solve loses no valid layout: every weight
\* assignment that meets the degrees, realizes at most one bridge of each
\* crossing pair and connects all islands is feasible for some y and some
\* flow, so solve returns a bridge set whenever such a layout exists and
\* returns None only when none exists.
C13_NoLayoutLost ==
    pc = "solved" =>
        /\ \A b \in RefLayouts(puzzle, possible_bridges, crossing_bridges) :
              \E v \in feasible_points(puzzle, possible_bridges, crossing_bridges) :
                  v[1] = b
        /\ ret = None => RefLayouts(puzzle, possible_bridges, crossing_bridges) = {}

\* C13's case: solve returned a bridge set for a puzzle that has a crossing
\* pair of candidates and a valid layout in which a bridge carries the flow
\* of several islands (some island other than the first has two bridges)
C13_Witness ==
    /\ pc = "solved"
    /\ ret # None
    /\ Len(crossing_bridges) > 0
    /\ \E b \in RefLayouts(puzzle, possible_bridges, crossing_bridges) :
          \E i \in 1 .. Len(puzzle.islands) - 1 :
              Cardinality({c \in Range(possible_bridges) :
                              b[c] > 0 /\ i \in {c[1], c[2]}}) >= 2


=============================================================================
